---- MODULE Spec2Model ----
(***************************************************************************)
(* Model of the RNNSM survival model (src/RNNSM/rnnsm.py) and of the       *)
(* training loop's use of it (src/train.py).                               *)
(*                                                                         *)
(* Numerical core: forward, compute_loss, predict_standard and predict    *)
(* act on a batch, called directly or chained as train() and validate()    *)
(* chain them (forward's squeezed result goes to compute_loss and          *)
(* predict).  Reals are fixed-point integers: a real x is the integer      *)
(* round(Scale * x); exp is tabulated from the formulas of _s_t and        *)
(* compute_loss with w = 1/10.                                             *)
(*                                                                         *)
(* Parameter store: save_model, load_model and train() with its            *)
(* torch.save act on two constructed models A and B and on one file.       *)
(***************************************************************************)
EXTENDS Integers, Sequences, FiniteSets, TLC

VARIABLES cfg, batch, res, weights, file, io

coreVars == <<cfg, batch, res>>
storeVars == <<weights, file, io>>
vars == <<cfg, batch, res, weights, file, io>>

(* ---------------- bounds of the model ---------------- *)
MaxBatch == 2
MaxLen == 3
MaxTimeScale == 2
MaxIntSteps == 3
MaxStart == 4
MaxVal == 1
MaxEpochs == 1
MaxFaults == 1

(* ---------------- fixed-point reals ---------------- *)
Scale == 1000
\* cfg.w = WNum / WDen
WNum == 1
WDen == 10
\* the horizon of predict_standard, in grid steps
StandardSteps == 1000
\* the two hazard outputs (log-intensities) the batches use
OVals == {-1, 0}

RECURSIVE SumSeq(_)
SumSeq(s) == IF s = <<>> THEN 0 ELSE Head(s) + SumSeq(Tail(s))

Max(a, b) == IF a >= b THEN a ELSE b
Min(a, b) == IF a <= b THEN a ELSE b

RECURSIVE MaxSeq(_)
MaxSeq(s) == IF Len(s) = 1 THEN s[1] ELSE Max(s[1], MaxSeq(Tail(s)))

\* round(Scale * exp(o + w*t)) for t = 0, 1, 2, ...
HazTable(o) ==
    IF o = 0
    THEN <<1000, 1105, 1221, 1350, 1492, 1649, 1822, 2014, 2226, 2460, 2718,
           3004, 3320, 3669, 4055, 4482, 4953, 5474, 6050, 6686, 7389>>
    ELSE <<368, 407, 449, 497, 549, 607, 670, 741, 819, 905, 1000,
           1105, 1221, 1350, 1492, 1649, 1822, 2014, 2226, 2460, 2718>>

\* the same for t = -1, -2, ...
HazTableNeg(o) ==
    IF o = 0
    THEN <<905, 819, 741, 670, 607, 549, 497, 449, 407, 368, 333, 301, 273,
           247, 223, 202, 183, 165, 150, 135, 122, 111, 100, 91>>
    ELSE <<333, 301, 273, 247, 223, 202, 183, 165, 150, 135, 122, 111, 100,
           91, 82, 74, 67, 61, 55, 50, 45, 41, 37, 33>>

\* torch.exp(o + w * t), t a scaled time
ExpFix(o, t) ==
    IF t >= 0 THEN HazTable(o)[Min(t, Len(HazTable(o)) - 1) + 1]
    ELSE HazTableNeg(o)[Min(-t, Len(HazTableNeg(o)))]

\* round(Scale * exp((exp(o) - exp(o + w*t)) / w)) for t = 0, 1, 2, ...;
\* it rounds to 0 from the end of the table on
SurvTable(o) ==
    IF o = 0
    THEN <<1000, 349, 109, 30, 7, 2>>
    ELSE <<1000, 679, 443, 276, 164, 92, 49, 24, 11, 5, 2, 1>>

\* the same for t = -1, -2, ...: the curve exceeds 1 before the last event
SurvTableNeg(o) ==
    IF o = 0
    THEN <<2590, 6127, 13354, 27026, 51146, 91093, 153569, 246339, 377777,
           556243, 789413, 1083615, 1443292, 1870630, 2365390, 2924956,
           3544544, 4217556, 4936016, 5691034, 6473264, 7273322, 8082137,
           8891228>>
    ELSE <<1419, 1948, 2595, 3363, 4252, 5258, 6372, 7582, 8874, 10231,
           11637, 13076, 14530, 15984, 17426, 18841, 20221, 21557, 22841,
           24069, 25237, 26342, 27384, 28362>>

\* one element of _s_t: exp(exp(o)/w - exp(o + w*t)/w)
SurvFix(o, t) ==
    IF t >= 0
    THEN IF t + 1 <= Len(SurvTable(o)) THEN SurvTable(o)[t + 1] ELSE 0
    ELSE SurvTableNeg(o)[Min(-t, Len(SurvTableNeg(o)))]

(* ---------------- tensors ---------------- *)
\* Tensor.squeeze(): every dimension of size 1 is dropped
Squeeze(shape) == SelectSeq(shape, LAMBDA d : d # 1)

\* x[arange(B), lengths - 1]: a negative index counts from the end of the row
IndexInRange(len, T) == len - 1 >= -T /\ len - 1 <= T - 1
LastPos(len, T) == IF len - 1 >= 0 THEN len ELSE len + T

\* torch.arange(0, steps * time_scale, time_scale)
Arange(steps, time_scale) == [k \in 1..steps |-> (k - 1) * time_scale]

\* _s_t(last_o_j, deltas, broadcast_deltas=True), before the squeeze
s_t_broadcast(last_o_j, deltas) ==
    [i \in 1..Len(last_o_j) |->
        [k \in 1..Len(deltas) |-> SurvFix(last_o_j[i], deltas[k])]]

\* _s_t(last_o_j, deltas), element by element, before the squeeze
s_t(last_o_j, deltas) ==
    [i \in 1..Len(last_o_j) |-> SurvFix(last_o_j[i], deltas[i])]

\* twice scipy's trapz(y, x): sum of diff(x) * (y[1:] + y[:-1])
RECURSIVE trapz2(_, _)
trapz2(y, x) ==
    IF Len(x) <= 1 THEN 0
    ELSE (x[2] - x[1]) * (y[2] + y[1]) + trapz2(Tail(y), Tail(x))

\* y[mask]: the entries of y at the positions where x satisfies the test
RECURSIVE MaskBelow(_, _, _)
MaskBelow(y, x, ts) ==
    IF x = <<>> THEN <<>>
    ELSE (IF x[1] < ts THEN <<y[1]>> ELSE <<>>) \o MaskBelow(Tail(y), Tail(x), ts)

RECURSIVE MaskFrom(_, _, _)
MaskFrom(y, x, ts) ==
    IF x = <<>> THEN <<>>
    ELSE (IF x[1] >= ts THEN <<y[1]>> ELSE <<>>) \o MaskFrom(Tail(y), Tail(x), ts)

\* torch.clamp(s, 1e-3, 1e0)
Clamp(s) == Max(Scale \div 1000, Min(s, Scale))

(* ---------------- batches ---------------- *)
\* hazard outputs of row i: the two values alternate along the row
ORow(p, T) == [j \in 1..T |-> IF (j + p) % 2 = 0 THEN -1 ELSE 0]

\* timestamps of row i: i, i+1, ... on the real steps, 0 on the padding
TRow(i, len, T) == [j \in 1..T |-> IF j <= len THEN i + j - 1 ELSE 0]

\* timestamps[:, 1:] - timestamps[:, :-1]: one column less than timestamps
time_deltas(timestamps) ==
    [i \in 1..Len(timestamps) |->
        [j \in 1..Len(timestamps[i]) - 1 |-> timestamps[i][j + 1] - timestamps[i][j]]]

\* a batch of the loader: lengths, timestamps and the two masks (one column
\* per time gap: gap j of a row is real when step j + 1 is).  o_j is the
\* scalar the network computes at each position; a caller that passes hazard
\* outputs of its own to compute_loss passes o_gaps, one column per gap
MkBatch(B, T, lens, ps, rets) ==
    [B |-> B, T |-> T, lengths |-> lens,
     o_j |-> [i \in 1..B |-> ORow(ps[i], T)],
     t_j |-> [i \in 1..B |-> TRow(i, lens[i], T)],
     o_gaps |-> [i \in 1..B |-> ORow(ps[i], T - 1)],
     padding_mask |-> [i \in 1..B |-> [j \in 1..T - 1 |-> j + 1 > lens[i]]],
     ret_mask |-> [i \in 1..B |-> [j \in 1..T - 1 |-> rets[i] /\ j + 1 = lens[i]]]]

Batches ==
    UNION {{MkBatch(B, MaxLen, lens, ps, rets) :
                lens \in [1..B -> 0..MaxLen],
                ps \in [1..B -> 0..1],
                rets \in [1..B -> BOOLEAN]} : B \in 1..MaxBatch}

Cfgs == [time_scale : 1..MaxTimeScale, integration_steps : 1..MaxIntSteps]

NoRes == [op |-> "none"]

(* ---------------- tensors with a shape ---------------- *)
\* a two-dimensional tensor a caller passes
Matrix(m) == [shape |-> <<Len(m), Len(m[1])>>, data |-> m]

\* a tensor of at most two dimensions, laid out as rows for broadcasting
Norm2(t) ==
    IF Len(t.shape) = 0 THEN <<<<t.data>>>>
    ELSE IF Len(t.shape) = 1 THEN <<t.data>>
    ELSE t.data

Rows(m) == Len(m)
Cols(m) == Len(m[1])

\* broadcasting of two shapes <<rows, columns>>
BcastOK(s1, s2) ==
    /\ s1[1] = s2[1] \/ s1[1] = 1 \/ s2[1] = 1
    /\ s1[2] = s2[2] \/ s1[2] = 1 \/ s2[2] = 1

BcastShape(s1, s2) ==
    <<IF s1[1] = 1 THEN s2[1] ELSE s1[1], IF s1[2] = 1 THEN s2[2] ELSE s1[2]>>

\* the element of m that position (i, j) of the broadcast result reads
At(m, i, j) == m[IF Rows(m) = 1 THEN 1 ELSE i][IF Cols(m) = 1 THEN 1 ELSE j]

(* ---------------- forward ---------------- *)
\* forward's result: pack_padded_sequence rejects a length <= 0,
\* pad_packed_sequence pads to the longest true length of the batch,
\* output_dense gives one scalar per step, and squeeze() drops every
\* dimension of size 1
forward(b) ==
    IF \E i \in 1..b.B : b.lengths[i] <= 0 \/ b.lengths[i] > b.T
    THEN [op |-> "forward", err |-> "RuntimeError"]
    ELSE LET m == MaxSeq(b.lengths)
         IN  [op |-> "forward", err |-> "none",
              shape |-> Squeeze(<<b.B, m, 1>>),
              data |-> IF b.B = 1 /\ m = 1 THEN b.o_j[1][1]
                       ELSE IF b.B = 1 THEN [j \in 1..m |-> b.o_j[1][j]]
                       ELSE IF m = 1 THEN [i \in 1..b.B |-> b.o_j[i][1]]
                       ELSE [i \in 1..b.B |-> [j \in 1..m |-> b.o_j[i][j]]]]

(* ---------------- compute_loss ---------------- *)
\* a float: a number, or what a division by zero leaves
Num(v) == [kind |-> "num", val |-> v]
NaN == [kind |-> "nan", val |-> 0]
Inf(sign) == [kind |-> "inf", val |-> sign]

\* tensor division num / den of a float by an integer count
FDiv(num, den) ==
    IF den # 0 THEN Num((num * 2 + den) \div (2 * den))
    ELSE IF num = 0 THEN NaN
    ELSE Inf(IF num > 0 THEN 1 ELSE -1)

FAdd(a, b) ==
    IF a.kind = "nan" \/ b.kind = "nan" THEN NaN
    ELSE IF a.kind = "inf" /\ b.kind = "inf"
         THEN (IF a.val = b.val THEN a ELSE NaN)
    ELSE IF a.kind = "inf" THEN a
    ELSE IF b.kind = "inf" THEN b
    ELSE Num(a.val + b.val)

\* torch.sum(mask), the mask negated or not
Count(mask, negate) ==
    SumSeq([i \in 1..Rows(mask) |->
        SumSeq([j \in 1..Cols(mask) |-> IF mask[i][j] # negate THEN 1 ELSE 0])])

\* the shape of p = o_j + w * deltas_scaled
PShape(deltas, o) == BcastShape(<<Rows(o), Cols(o)>>, <<Rows(deltas), Cols(deltas)>>)

\* (-(exp(o_j) - exp(p)) / w * ~padding_mask).sum()
CommonSum(deltas, padding_mask, o, c) ==
    LET sh == BcastShape(PShape(deltas, o), <<Rows(padding_mask), Cols(padding_mask)>>)
    IN  SumSeq([i \in 1..sh[1] |-> SumSeq([j \in 1..sh[2] |->
            (((ExpFix(At(o, i, j), At(deltas, i, j) * c.time_scale)
                 - ExpFix(At(o, i, j), 0)) * WDen) \div WNum)
              * (IF At(padding_mask, i, j) THEN 0 ELSE 1)])])

\* (-p * ret_mask).sum()
RetSum(deltas, ret_mask, o, c) ==
    LET sh == BcastShape(PShape(deltas, o), <<Rows(ret_mask), Cols(ret_mask)>>)
    IN  SumSeq([i \in 1..sh[1] |-> SumSeq([j \in 1..sh[2] |->
            (-(At(o, i, j) * Scale
                 + (At(deltas, i, j) * c.time_scale * Scale * WNum) \div WDen))
              * (IF At(ret_mask, i, j) THEN 1 ELSE 0)])])

common_term(deltas, padding_mask, o, c) ==
    FDiv(CommonSum(deltas, padding_mask, o, c), Count(padding_mask, TRUE))

ret_term(deltas, ret_mask, o, c) ==
    FDiv(RetSum(deltas, ret_mask, o, c), Count(ret_mask, FALSE))

\* o_j is a tensor of any shape; the sizes must broadcast
compute_loss(deltas, padding_mask, ret_mask, o_j, c) ==
    LET o == Norm2(o_j)
    IN  IF \/ ~BcastOK(<<Rows(o), Cols(o)>>, <<Rows(deltas), Cols(deltas)>>)
           \/ ~BcastOK(PShape(deltas, o), <<Rows(padding_mask), Cols(padding_mask)>>)
           \/ ~BcastOK(PShape(deltas, o), <<Rows(ret_mask), Cols(ret_mask)>>)
        THEN [op |-> "compute_loss", err |-> "RuntimeError"]
        ELSE [op |-> "compute_loss", err |-> "none",
              common |-> common_term(deltas, padding_mask, o, c),
              ret |-> ret_term(deltas, ret_mask, o, c),
              loss |-> FAdd(common_term(deltas, padding_mask, o, c),
                            ret_term(deltas, ret_mask, o, c))]

(* ---------------- predict_standard ---------------- *)
\* o_j.size(0) needs a dimension, o_j[arange, lengths - 1] needs two; the
\* return statement reads deltas_scaled, a name predict_standard never binds
predict_standard(o_j, t_j, lengths, c) ==
    IF Len(o_j.shape) < 2
    THEN [op |-> "predict_standard", err |-> "IndexError"]
    ELSE IF \E i \in 1..o_j.shape[1] :
               \/ ~IndexInRange(lengths[i], o_j.shape[2])
               \/ ~IndexInRange(lengths[i], Len(t_j[i]))
    THEN [op |-> "predict_standard", err |-> "IndexError"]
    ELSE LET last_o_j == [i \in 1..o_j.shape[1] |->
                             o_j.data[i][LastPos(lengths[i], o_j.shape[2])]]
             last_t_j == [i \in 1..o_j.shape[1] |->
                             t_j[i][LastPos(lengths[i], Len(t_j[i]))]]
             deltas == Arange(StandardSteps, c.time_scale)
         IN  [op |-> "predict_standard", err |-> "NameError"]

(* ---------------- predict ---------------- *)
last_o(o_j, lengths, i) == o_j.data[i][LastPos(lengths[i], o_j.shape[2])]
last_t(t_j, lengths, i) == t_j[i][LastPos(lengths[i], Len(t_j[i]))]

\* t_til_start = (pred_start - last_t_j) * time_scale
t_til_start(b, c, pred_start, i) ==
    (pred_start - last_t(b.t_j, b.lengths, i)) * c.time_scale

\* s_t_s, clamped
s_t_s(o_j, b, c, pred_start, i) ==
    Clamp(s_t(<<last_o(o_j, b.lengths, i)>>, <<t_til_start(b, c, pred_start, i)>>)[1])

Deltas(c) == Arange(c.integration_steps, c.time_scale)
s_deltas(o_j, b, c, i) == s_t_broadcast(<<last_o(o_j, b.lengths, i)>>, Deltas(c))[1]

\* twice trapz(ith_s_deltas[deltas < ith_t_s], deltas[deltas < ith_t_s])
FirstPortion(o_j, b, c, pred_start, i) ==
    LET ts == t_til_start(b, c, pred_start, i)
    IN  trapz2(MaskBelow(s_deltas(o_j, b, c, i), Deltas(c), ts),
               MaskBelow(Deltas(c), Deltas(c), ts))

\* twice trapz(ith_s_deltas[deltas >= ith_t_s], deltas[deltas >= ith_t_s])
SecondPortion(o_j, b, c, pred_start, i) ==
    LET ts == t_til_start(b, c, pred_start, i)
    IN  trapz2(MaskFrom(s_deltas(o_j, b, c, i), Deltas(c), ts),
               MaskFrom(Deltas(c), Deltas(c), ts))

\* twice pred_delta
pred_delta(o_j, b, c, pred_start, i) ==
    FirstPortion(o_j, b, c, pred_start, i)
      + (SecondPortion(o_j, b, c, pred_start, i) * Scale)
            \div s_t_s(o_j, b, c, pred_start, i)

\* preds[i], in units of 1 / (2 * Scale)
PredOf(o_j, b, c, pred_start, i) ==
    2 * Scale * last_t(b.t_j, b.lengths, i)
      + pred_delta(o_j, b, c, pred_start, i) \div c.time_scale

\* predict(o_j, b.t_j, b.lengths, pred_start), o_j a tensor of any shape
predict(o_j, b, c, pred_start) ==
    IF Len(o_j.shape) < 2
    \* o_j.size(0) needs a dimension, o_j[arange, lengths - 1] needs two
    THEN [op |-> "predict", err |-> "IndexError", pred_start |-> pred_start]
    ELSE IF \E i \in 1..o_j.shape[1] :
               \/ ~IndexInRange(b.lengths[i], o_j.shape[2])
               \/ ~IndexInRange(b.lengths[i], Len(b.t_j[i]))
    THEN [op |-> "predict", err |-> "IndexError", pred_start |-> pred_start]
    ELSE IF Squeeze(<<o_j.shape[1]>>) = <<>>
    \* s_t_s is squeezed to a 0-dim tensor and s_t_s[i] cannot index it
    THEN [op |-> "predict", err |-> "IndexError", pred_start |-> pred_start]
    ELSE IF Tail(Squeeze(<<o_j.shape[1], c.integration_steps>>)) = <<>>
    \* s_deltas[i] is a 0-dim tensor and a mask cannot index it
    THEN [op |-> "predict", err |-> "IndexError", pred_start |-> pred_start]
    ELSE [op |-> "predict", err |-> "none", pred_start |-> pred_start,
          preds |-> [i \in 1..o_j.shape[1] |-> PredOf(o_j, b, c, pred_start, i)]]

(* ---------------- the calls of train() and validate() ---------------- *)
\* one training batch: the gaps, forward, then the loss of forward's result
train_step(b, c) ==
    LET f == forward(b)
    IN  IF f.err # "none" THEN [op |-> "train_step", err |-> f.err]
        ELSE [compute_loss(time_deltas(b.t_j), b.padding_mask, b.ret_mask, f, c)
                EXCEPT !.op = "train_step"]

\* one validation batch: forward, then predict on forward's result
validate(b, c, pred_start) ==
    LET f == forward(b)
    IN  IF f.err # "none"
        THEN [op |-> "validate", err |-> f.err, pred_start |-> pred_start]
        ELSE [predict(f, b, c, pred_start) EXCEPT !.op = "validate"]

\* the hazard outputs behind a result: forward's in train() and validate(),
\* the caller's own in a direct call
UsedO(op, b) == IF op \in {"train_step", "validate"} THEN forward(b) ELSE Matrix(b.o_j)

(* ---------------- actions of the numerical core ---------------- *)
\* the data pipeline hands over the next batch
NewBatch ==
    /\ batch' \in Batches
    /\ res' = NoRes
    /\ UNCHANGED <<cfg, weights, file, io>>

Forward ==
    /\ res' = forward(batch)
    /\ UNCHANGED <<cfg, batch, weights, file, io>>

\* a caller passes the gaps of the timestamps and hazard outputs of its own
ComputeLoss ==
    /\ res' = compute_loss(time_deltas(batch.t_j), batch.padding_mask,
                            batch.ret_mask, Matrix(batch.o_gaps), cfg)
    /\ UNCHANGED <<cfg, batch, weights, file, io>>

\* a caller passes hazard outputs of its own, one per position of the batch
PredictStandard ==
    /\ res' = predict_standard(Matrix(batch.o_j), batch.t_j, batch.lengths, cfg)
    /\ UNCHANGED <<cfg, batch, weights, file, io>>

Predict ==
    /\ \E pred_start \in 1..MaxStart :
          res' = predict(Matrix(batch.o_j), batch, cfg, pred_start)
    /\ UNCHANGED <<cfg, batch, weights, file, io>>

TrainStep ==
    /\ res' = train_step(batch, cfg)
    /\ UNCHANGED <<cfg, batch, weights, file, io>>

Validate ==
    /\ \E pred_start \in 1..MaxStart : res' = validate(batch, cfg, pred_start)
    /\ UNCHANGED <<cfg, batch, weights, file, io>>

NextCore ==
    \/ NewBatch \/ Forward \/ ComputeLoss \/ PredictStandard \/ Predict
    \/ TrainStep \/ Validate

(* ---------------- parameter store ---------------- *)
Models == {"A", "B"}

\* the modules with weights that __init__ creates (dropout has none)
Groups == {"lstm", "embeddings", "input_dense", "output_dense", "hidden"}

\* the names of a module's tensors in its state_dict
Keys(g) ==
    IF g = "lstm" THEN {"weight_ih_l0", "weight_hh_l0", "bias_ih_l0", "bias_hh_l0"}
    ELSE IF g = "embeddings" THEN {"0.weight"}
    ELSE {"weight", "bias"}

\* the shape the configuration gives every tensor, and a shape of another one
CfgShape == "cfg"
OtherShape == "other"

Tensor(v) == [shape |-> CfgShape, val |-> v]

\* the value of a tensor: the model whose random initialisation it started
\* from and the number of optimizer steps it has taken since
Val(m, n) == [by |-> m, n |-> n]

\* __init__: every tensor gets its own random initial value
Constructed(m) == [g \in Groups |-> [k \in Keys(g) |-> Tensor(Val(m, 0))]]

\* module.state_dict()
state_dict(w, g) == w[g]

\* the dictionary save_model hands to torch.save
SavedBundle(w) ==
    [g \in {"lstm", "embeddings", "input_dense", "output_dense", "hidden"} |->
        state_dict(w, g)]

\* model.state_dict(): one flat dictionary, keys prefixed by the module name
FlatKey(g, k) == g \o "." \o k
FlatKeys == UNION {{FlatKey(g, k) : k \in Keys(g)} : g \in Groups}
FlatDict(w) ==
    [fk \in FlatKeys |->
        LET g == CHOOSE h \in Groups : \E k \in Keys(h) : fk = FlatKey(h, k)
            k == CHOOSE j \in Keys(g) : fk = FlatKey(g, j)
        IN  w[g][k]]

NoFile == [exists |-> FALSE, data |-> <<>>, faults |-> 0]
FileOf(data, faults) == [exists |-> TRUE, data |-> data, faults |-> faults]

\* Module.load_state_dict(sd), strict: the tensors whose key is present and
\* whose shape matches are copied; missing keys, unexpected keys and shape
\* mismatches are collected and raise once the copying is done
\* as if strict=False: a key the dictionary lacks is passed over in silence
load_state_dict_lenient(own, sd) ==
    /\ DOMAIN sd \subseteq DOMAIN own
    /\ \A k \in DOMAIN own \cap DOMAIN sd : sd[k].shape = own[k].shape

load_state_dict_ok(own, sd) ==
    /\ DOMAIN own \subseteq DOMAIN sd
    /\ DOMAIN sd \subseteq DOMAIN own
    /\ \A k \in DOMAIN own : sd[k].shape = own[k].shape

load_state_dict_new(own, sd) ==
    [k \in DOMAIN own |->
        IF k \in DOMAIN sd /\ sd[k].shape = own[k].shape
        THEN [shape |-> own[k].shape, val |-> sd[k].val]
        ELSE own[k]]

\* as if load_model forgot its last statement
LoadOrderWithoutHidden == <<"lstm", "embeddings", "input_dense", "output_dense">>

\* the order in which load_model restores the groups
LoadOrder == <<"lstm", "embeddings", "input_dense", "output_dense", "hidden">>

\* load_model from its n-th statement on: the weights left and how it ended
RECURSIVE LoadFrom(_, _, _)
LoadFrom(n, w, params) ==
    IF n > Len(LoadOrder) THEN [w |-> w, err |-> "none"]
    ELSE LET g == LoadOrder[n]
         IN  IF g \notin DOMAIN params THEN [w |-> w, err |-> "KeyError"]
             ELSE LET w2 == [w EXCEPT ![g] = load_state_dict_new(w[g], params[g])]
                  IN  IF load_state_dict_ok(w[g], params[g])
                      THEN LoadFrom(n + 1, w2, params)
                      ELSE [w |-> w2, err |-> "RuntimeError"]

load_model(w, f) ==
    IF ~f.exists THEN [w |-> w, err |-> "FileNotFoundError"]
    ELSE LoadFrom(1, w, f.data)

\* optimizer.step(), steps times: every tensor moves on
Trained(w, steps) ==
    [g \in Groups |-> [k \in Keys(g) |-> [w[g][k] EXCEPT !.val.n = @ + steps]]]

MaxValOf(w) ==
    CHOOSE v \in 0..MaxVal + MaxEpochs :
        /\ \E g \in Groups : \E k \in Keys(g) : w[g][k].val.n = v
        /\ \A g \in Groups : \A k \in Keys(g) : w[g][k].val.n <= v

\* the checkpoint validate() is called with
prediction_start == 16400

\* the batch of the training loader: one whose result forward hands to
\* compute_loss in the shape of the gaps, one filled to the last column, one
\* with an empty sequence
TrainBatches ==
    {MkBatch(2, MaxLen, <<MaxLen - 1, MaxLen - 1>>, <<0, 1>>, <<TRUE, FALSE>>),
     MkBatch(2, MaxLen, <<MaxLen, MaxLen>>, <<0, 1>>, <<TRUE, FALSE>>),
     MkBatch(1, MaxLen, <<0>>, <<0>>, <<FALSE>>)}

\* the batch of the validation loader: two sequences, or a single one
ValBatches ==
    {MkBatch(2, MaxLen, <<MaxLen, MaxLen - 1>>, <<0, 1>>, <<FALSE, FALSE>>),
     MkBatch(1, MaxLen, <<1>>, <<0>>, <<FALSE>>)}

\* train(...) over n_epochs epochs, each one the training batch (forward,
\* compute_loss, optimizer.step()) and then validate(): the optimizer steps
\* taken and how the loop ended.  The loss is stepped on whatever its value;
\* the targets of the validation set hold both classes, so the metrics that
\* follow predict do not raise
train(tb, vb, c, n_epochs) ==
    IF n_epochs = 0 THEN [steps |-> 0, err |-> "none"]
    ELSE IF train_step(tb, c).err # "none"
    THEN [steps |-> 0, err |-> train_step(tb, c).err]
    ELSE IF validate(vb, c, prediction_start).err # "none"
    THEN [steps |-> 1, err |-> validate(vb, c, prediction_start).err]
    ELSE [steps |-> n_epochs, err |-> "none"]

\* the ways a run of train() can end under each configuration, over the
\* loaders and the numbers of epochs
TrainRuns ==
    {[cfg |-> c, run |-> train(tb, vb, c, n_epochs)] :
        c \in Cfgs, n_epochs \in 0..MaxEpochs, tb \in TrainBatches, vb \in ValBatches}

\* what the last operation was, on which model, how it ended, whether it
\* changed the model's weights, and the operation before it
IoRec(op, m, err, changed) ==
    [op |-> op, m |-> m, err |-> err, changed |-> changed,
     prev |-> [op |-> io.op, m |-> io.m, err |-> io.err]]

(* ---------------- actions of the parameter store ---------------- *)
SaveModel(m) ==
    /\ file' = FileOf(SavedBundle(weights[m]), file.faults)
    /\ io' = IoRec("save_model", m, "none", FALSE)
    /\ UNCHANGED <<weights, cfg, batch, res>>

LoadModel(m) ==
    /\ weights' = [weights EXCEPT ![m] = load_model(weights[m], file).w]
    /\ io' = IoRec("load_model", m, load_model(weights[m], file).err,
                 weights'[m] # weights[m])
    /\ UNCHANGED <<file, cfg, batch, res>>

\* train(...): the epochs, then torch.save(model.state_dict(), path); an
\* exception in an epoch leaves the steps taken so far and writes no file
Train(m) ==
    /\ \E t \in TrainRuns :
          LET r == t.run
          IN  /\ t.cfg = cfg
              /\ MaxValOf(weights[m]) + r.steps <= MaxVal
              /\ weights' = [weights EXCEPT ![m] = Trained(weights[m], r.steps)]
              /\ file' = IF r.err = "none"
                         THEN FileOf(FlatDict(weights'[m]), file.faults)
                         ELSE file
              /\ io' = IoRec("train", m, r.err, weights'[m] # weights[m])
    /\ UNCHANGED <<cfg, batch, res>>

\* the file at the path is not this model's own save (file.faults counts how
\* often that happened): a group is missing
DropGroup(g) ==
    /\ file.exists /\ file.faults < MaxFaults /\ g \in DOMAIN file.data
    /\ file' = FileOf([h \in DOMAIN file.data \ {g} |-> file.data[h]], file.faults + 1)
    /\ io' = IoRec("foreign", "none", "none", FALSE)
    /\ UNCHANGED <<weights, cfg, batch, res>>

\* ... or a tensor of a group is missing
DropKey(g, k) ==
    /\ file.exists /\ file.faults < MaxFaults /\ g \in DOMAIN file.data
    /\ k \in DOMAIN file.data[g]
    /\ file' = FileOf([file.data EXCEPT ![g] =
                          [j \in DOMAIN file.data[g] \ {k} |-> file.data[g][j]]],
                      file.faults + 1)
    /\ io' = IoRec("foreign", "none", "none", FALSE)
    /\ UNCHANGED <<weights, cfg, batch, res>>

\* ... or a tensor was saved by a model of another configuration
Reshape(g, k) ==
    /\ file.exists /\ file.faults < MaxFaults /\ g \in DOMAIN file.data
    /\ k \in DOMAIN file.data[g]
    /\ file.data[g][k].shape = CfgShape
    /\ file' = FileOf([file.data EXCEPT ![g][k].shape = OtherShape], file.faults + 1)
    /\ io' = IoRec("foreign", "none", "none", FALSE)
    /\ UNCHANGED <<weights, cfg, batch, res>>

\* A is the model of the training process; B is the model of a process that
\* loads what is at the path; either may save
NextStore ==
    \/ \E m \in Models : SaveModel(m)
    \/ LoadModel("B")
    \/ Train("A")
    \/ \E g \in Groups : DropGroup(g)
    \/ \E g \in Groups : \E k \in Keys(g) : DropKey(g, k)
    \/ \E g \in Groups : \E k \in Keys(g) : Reshape(g, k)

(* ---------------- specifications ---------------- *)
Init ==
    /\ cfg \in Cfgs
    /\ batch \in Batches
    /\ res = NoRes
    /\ weights = [m \in Models |-> Constructed(m)]
    /\ file = NoFile
    /\ io = [op |-> "init", m |-> "B", err |-> "none", changed |-> FALSE,
             prev |-> [op |-> "none", m |-> "none", err |-> "none"]]

Spec == Init /\ [][NextCore]_vars

InitStore ==
    /\ cfg = [time_scale |-> 1, integration_steps |-> 2]
    /\ batch = MkBatch(1, MaxLen, <<1>>, <<0>>, <<FALSE>>)
    /\ res = NoRes
    /\ weights = [m \in Models |-> Constructed(m)]
    /\ file = NoFile
    /\ io = [op |-> "init", m |-> "B", err |-> "none", changed |-> FALSE,
             prev |-> [op |-> "none", m |-> "none", err |-> "none"]]

SpecStore == InitStore /\ [][NextStore]_vars

(* ---------------- properties: numerical core ---------------- *)
AllReal(b) == \A i \in 1..b.B : b.lengths[i] >= 1 /\ b.lengths[i] <= b.T

\* C1: on a batch whose true lengths are all >= 1, predict_standard returns
\* without raising, one value per sequence, each at least the sequence's
\* last observed timestamp.
C1_PredictStandardReturns ==
    (res.op = "predict_standard" /\ AllReal(batch)) =>
        /\ res.err = "none"
        /\ Len(res.preds) = batch.B
        /\ \A i \in 1..batch.B :
              res.preds[i] >= 2 * Scale * last_t(batch.t_j, batch.lengths, i)

NoRealPosition(b) == \A i \in 1..b.B : \A j \in 1..b.T - 1 : b.padding_mask[i][j]
NoReturnPosition(b) == \A i \in 1..b.B : \A j \in 1..b.T - 1 : ~b.ret_mask[i][j]

\* C2: compute_loss never divides by a zero count: a batch with no
\* non-padded position has survival term 0, a batch with no return-flagged
\* position has return term 0, and the loss is a finite number.
C2_LossDefined ==
    (res.op \in {"compute_loss", "train_step"} /\ res.err = "none") =>
        /\ res.loss.kind = "num"
        /\ NoRealPosition(batch) => res.common = Num(0)
        /\ NoReturnPosition(batch) => res.ret = Num(0)

\* C3: predict called with the checkpoint at a sequence's last observed
\* timestamp returns for that sequence what predict_standard returns.
C3_PredictEqualsStandardAtLastEvent ==
    \A i \in 1..batch.B :
        (/\ res.op = "predict" /\ AllReal(batch)
         /\ res.pred_start = last_t(batch.t_j, batch.lengths, i)) =>
            /\ res.err = "none"
            /\ predict_standard(Matrix(batch.o_j), batch.t_j, batch.lengths, cfg).err
                  = "none"
            /\ res.preds[i] =
                  predict_standard(Matrix(batch.o_j), batch.t_j, batch.lengths, cfg).preds[i]

\* C4: forward returns a result of shape (batch, max_length) for every batch
\* size >= 1 and all true lengths in 1..max_length.
C4_ForwardShape ==
    (res.op = "forward" /\ AllReal(batch)) =>
        /\ res.err = "none"
        /\ res.shape = <<batch.B, batch.T>>

\* C5: predict and predict_standard fail with an error on a batch that has a
\* sequence of true length 0, instead of reading index -1 of its row.
C5_ZeroLengthRejected ==
    (res.op \in {"predict", "predict_standard"}
        /\ \E i \in 1..batch.B : batch.lengths[i] = 0) =>
        res.err # "none"

InsideHorizon(c, ts) == ts >= 0 /\ ts <= (c.integration_steps - 1) * c.time_scale

\* C8: in predict the two portions of the split integral cover the whole
\* grid: for a checkpoint inside the horizon, the trapezoidal integral over
\* the points below t_s plus the one over the points from t_s on equals the
\* trapezoidal integral over the full grid.
C8_SplitCoversHorizon ==
    (res.op \in {"predict", "validate"} /\ res.err = "none") =>
        \A i \in 1..batch.B :
            InsideHorizon(cfg, t_til_start(batch, cfg, res.pred_start, i)) =>
                FirstPortion(UsedO(res.op, batch), batch, cfg, res.pred_start, i)
                  + SecondPortion(UsedO(res.op, batch), batch, cfg, res.pred_start, i)
                = trapz2(s_deltas(UsedO(res.op, batch), batch, cfg, i), Deltas(cfg))

(* ---------------- properties: parameter store ---------------- *)
\* the file holds every group, every tensor of it, in the model's shapes
BundleComplete(f) ==
    /\ f.exists
    /\ \A g \in Groups :
          /\ g \in DOMAIN f.data
          /\ DOMAIN f.data[g] = Keys(g)
          /\ \A k \in Keys(g) : f.data[g][k].shape = CfgShape

\* C6: load_model returns normally only if the bundle holds all five groups
\* in matching shapes, and then every group of the model holds the bundle's
\* values; otherwise it raises.
C6_LoadAllOrRaise ==
    (io.op = "load_model" /\ io.err = "none") =>
        /\ BundleComplete(file)
        /\ \A g \in Groups : \A k \in Keys(g) :
              weights[io.m][g][k].val = file.data[g][k].val

\* a load raised on a bundle that has the first group but not the last
C6_Witness ==
    /\ io.op = "load_model" /\ io.err = "KeyError"
    /\ file.exists /\ "lstm" \in DOMAIN file.data /\ "hidden" \notin DOMAIN file.data

\* C7: after save_model on one model and load_model on another of the same
\* configuration, the load succeeded, the bundle holds exactly the model's
\* weight groups and every group of the two models is equal.
C7_RoundTrip ==
    (io.op = "load_model" /\ io.prev.op = "save_model") =>
        /\ io.err = "none"
        /\ DOMAIN file.data = Groups
        /\ weights[io.m] = weights[io.prev.m]

\* B, holding other weights than A, loaded what A saved
C7_Witness ==
    /\ io.op = "load_model" /\ io.m = "B" /\ io.err = "none"
    /\ io.prev = [op |-> "save_model", m |-> "A", err |-> "none"]
    /\ io.changed

\* C9: a load_model that raised has left all weights of the model as they
\* were before the call.
C9_FailedLoadChangesNothing ==
    (io.op = "load_model" /\ io.err # "none") => ~io.changed

\* C10: loading the file train() wrote succeeds and restores the weights of
\* the trained model.
C10_TrainFileLoads ==
    (io.op = "load_model" /\ io.prev.op = "train" /\ io.prev.err = "none") =>
        /\ io.err = "none"
        /\ weights[io.m] = weights[io.prev.m]
====
